---- MODULE Spec2Model ----
(***************************************************************************)
(* Verification model of the HST tutorial notebooks.                       *)
(*                                                                         *)
(* Every notebook is a flat sequence of code cells run in order by one     *)
(* kernel.  A cell is one action; an uncaught exception in a cell stops    *)
(* the run (status = "raised") and no later cell is executed.  External    *)
(* tools (calacs, TweakReg, AstroDrizzle, swrapper, stsynphot, the MAST    *)
(* archive, the file system) are black boxes whose results are drawn from  *)
(* small sets.  Each notebook has its own specification; the variables of  *)
(* the other notebooks stay at their idle values.                          *)
(***************************************************************************)
EXTENDS Integers, Sequences, FiniteSets, TLC

VARIABLES
    pc,             \* name of the next cell the kernel will run
    status,         \* "running", "raised" (uncaught exception) or "done"
    out,            \* messages printed by the cells, in order
    log,            \* external tools and steps executed, in order
    err,            \* the uncaught exception, or NoErr
    \* ---- ACS reduction notebook
    asn_disk,       \* rows of j9l960010_asn.fits on disk
    asn_tab,        \* the notebook variable asn_tab
    raw_files,      \* the notebook variable raw_files
    cte_correct,    \* the notebook variable cte_correct
    pctecorr,       \* PCTECORR keyword of every raw file on disk
    environ,        \* environment variables set by the notebook
    bestrefs,       \* raw files on which crds bestrefs has been run
    calacs_asn,     \* the association rows calacs.e read, or NotRun
    rootname,       \* name of every raw exposure in the working directory
    products,       \* calibrated files calacs has written
    fl_fits,        \* the notebook variable fl_fits, <<>> before it is set
    img_files,      \* the notebook variable img_files, <<>> before it is set
    wcs_updated,    \* files whose WCS keywords updatewcs has updated
    \* ---- sky-matching notebook
    drz_disk,       \* the visit-level *drz.fits files in the working directory
    drz_files,      \* the notebook variable drz_files
    shift_file,     \* lines of shift_drz.txt, or NotRun while it does not exist
    drz_hdr,        \* DRZ files whose header WCS this run has updated
    flt_hdr,        \* DRZ files whose FLT exposures got the WCS by tweakback
    drizzled,       \* AstroDrizzle outputs written by this run
    nmatches,       \* catalogue sources TweakReg matches in every DRZ image
    tweak_calls,    \* the TweakReg calls made: parameters and images fitted
    \* ---- flux-scaling notebook: files
    fs_mast,        \* whether stis_data/mastDownload/HST/ exists
    fs_mast_files,  \* FITS files under stis_data/mastDownload/HST/<obs_id>/
    fs_stis,        \* FITS files directly in ./stis_data
    downloaded,     \* files the download cell of this run fetched
    swrapper_in,    \* content of ./stis_data when swrapper first ran
    g191_query,     \* proposal_id the archive was queried with, 0 before
    coadd,          \* the notebook variable coadd, <<>> before it is set
    stis_products,  \* co-add products in ./stis_products
    stis_scaled_data,      \* files in ./stis_scaled_data
    stis_scaled_products,  \* co-add products in ./stis_scaled_products
    opened,         \* co-add files opened: directory and file name
    \* ---- flux-scaling notebook: rescaling
    flux,           \* FLUX column of the three X1D files in ./stis_data
    med_spec,       \* med_spec_010, med_spec_020, med_spec_030
    scale_factor,   \* the notebook variable scale_factor
    scaled,         \* FLUX column of the three files in ./stis_scaled_data
    \* ---- synthetic-photometry notebooks: setup cells
    syn_nb,         \* which of the two notebooks is run
    cwd,            \* working directory of the kernel (path components)
    tar_state,      \* the .tar file in cwd: "absent", "partial" or "ok"
    tar_members,    \* member names of the archive the server delivers
    extracted,      \* paths written by tar.extract
    pysyn_cdbs,     \* os.environ['PYSYN_CDBS'], UnsetPath when not set
    stsyn_env,      \* PYSYN_CDBS as seen by `import stsynphot`, NotImported before
    \* ---- filter-transformation notebook: output table
    filter_pairs,   \* the notebook variable filter_pairs
    chips,          \* the notebook variable chips = [use_uvis1, use_uvis2]
    mags,           \* the notebook variable mags: (name, unit, toggle) triples
    throughput,     \* which throughput tables stsynphot has loaded
    cols,           \* the notebook variable cols
    rows,           \* the notebook variable rows
    df,             \* the DataFrame, NoFrame before it is built
    \* ---- WFC3 exception-report notebook
    wfc_newdir,     \* ./iepp01010: whether it exists and the files in it
    wfc_mast,       \* ./mastDownload: whether it exists, the sub-directories
                    \* of mastDownload/HST and the files in each
    wfc_dl,         \* the download tables of the three file types, <<>> before
    wfc_fail,       \* number of the os.rename call that fails, 0 for none
    wfc_rmdir,      \* os.rmdir calls made and how many of them failed
    \* ---- FITS headers, all notebooks
    fits_ops        \* header accesses made so far (see HeaderOp)

common_vars == <<pc, status, out, log, err>>
acs_vars == <<asn_disk, asn_tab, raw_files, cte_correct, pctecorr, environ,
              bestrefs, calacs_asn, rootname, products, fl_fits, img_files,
              wcs_updated>>
sky_vars == <<drz_disk, drz_files, shift_file, drz_hdr, flt_hdr, drizzled,
              nmatches, tweak_calls>>
coadd_vars == <<g191_query, coadd, stis_products, stis_scaled_data,
                stis_scaled_products, opened>>
flux_vars == <<fs_mast, fs_mast_files, fs_stis, downloaded, swrapper_in,
               coadd_vars>>
scale_vars == <<flux, med_spec, scale_factor, scaled>>
syn_vars == <<syn_nb, cwd, tar_state, tar_members, extracted, pysyn_cdbs,
              stsyn_env>>
col_vars == <<filter_pairs, chips, mags, throughput, cols, rows, df>>
wfc_vars == <<wfc_newdir, wfc_mast, wfc_dl, wfc_fail, wfc_rmdir>>
vars == <<common_vars, acs_vars, sky_vars, flux_vars, scale_vars, syn_vars,
          col_vars, wfc_vars, fits_ops>>
\* What the cells of one notebook leave alone.  The flux-scaling and
\* synthetic-photometry cells access no header keyword.
not_acs == <<sky_vars, flux_vars, scale_vars, syn_vars, col_vars, wfc_vars>>
not_sky == <<acs_vars, flux_vars, scale_vars, syn_vars, col_vars, wfc_vars>>
not_flux == <<acs_vars, sky_vars, scale_vars, syn_vars, col_vars, wfc_vars,
              fits_ops>>
not_scale == <<acs_vars, sky_vars, flux_vars, syn_vars, col_vars, wfc_vars,
               fits_ops>>
not_syn == <<acs_vars, sky_vars, flux_vars, scale_vars, col_vars, wfc_vars,
             fits_ops>>
not_col == <<acs_vars, sky_vars, flux_vars, scale_vars, syn_vars, wfc_vars,
             fits_ops>>
not_wfc == <<acs_vars, sky_vars, flux_vars, scale_vars, syn_vars, col_vars>>

NoErr == [type |-> "none"]
NotRun == <<"not run">>
Unset == "unset"

\* Sequences over S of length 0..n
RECURSIVE SeqsUpTo(_, _)
SeqsUpTo(S, n) ==
    IF n = 0 THEN {<<>>}
    ELSE LET shorter == SeqsUpTo(S, n - 1)
         IN  shorter \cup {Append(s, x) : s \in {t \in shorter : Len(t) = n - 1}, x \in S}

\* The kernel moves on to the next cell
Goto(cell) == /\ pc' = cell
              /\ status' = IF cell = "end" THEN "done" ELSE "running"

\* The cell raised: the run stops at this cell
Raise(e) == /\ pc' = pc
            /\ status' = "raised"
            /\ err' = e

At(cell) == pc = cell /\ status = "running"

AcsIdle ==
    /\ asn_disk = <<>> /\ asn_tab = <<>> /\ raw_files = {}
    /\ cte_correct = FALSE /\ pctecorr = <<>> /\ environ = {}
    /\ bestrefs = {} /\ calacs_asn = NotRun
    /\ rootname = <<>> /\ products = {} /\ fl_fits = <<>> /\ img_files = <<>>
    /\ wcs_updated = {}

SkyIdle ==
    /\ drz_disk = {} /\ drz_files = {} /\ shift_file = NotRun
    /\ drz_hdr = {} /\ flt_hdr = {} /\ drizzled = {}
    /\ nmatches = <<>> /\ tweak_calls = <<>>

FluxIdle ==
    /\ fs_mast = FALSE /\ fs_mast_files = {} /\ fs_stis = {}
    /\ downloaded = {} /\ swrapper_in = {}
    /\ g191_query = 0 /\ coadd = <<>> /\ stis_products = {}
    /\ stis_scaled_data = {} /\ stis_scaled_products = {} /\ opened = <<>>

ScaleIdle ==
    /\ flux = <<>> /\ med_spec = <<>> /\ scale_factor = <<>> /\ scaled = <<>>

UnsetPath == <<"(unset)">>
NotImported == <<"(not imported)">>

SynIdle ==
    /\ syn_nb = "" /\ cwd = <<>> /\ tar_state = "absent" /\ tar_members = <<>>
    /\ extracted = {} /\ pysyn_cdbs = UnsetPath /\ stsyn_env = NotImported

NoFrame == [columns |-> <<>>, data |-> <<>>, built |-> FALSE]

ColIdle ==
    /\ filter_pairs = <<>> /\ chips = <<>> /\ mags = <<>> /\ throughput = 0
    /\ cols = <<>> /\ rows = <<>> /\ df = NoFrame

WfcIdle ==
    /\ wfc_newdir = <<>> /\ wfc_mast = <<>> /\ wfc_dl = <<>> /\ wfc_fail = 0
    /\ wfc_rmdir = <<>>

(***************************************************************************)
(* ACS reduction notebook                                                  *)
(***************************************************************************)
MaxRows == 3
MaxRaw == 2

MemTypes == {"EXP-DTH", "PROD-DTH"}
AsnTables == SeqsUpTo(MemTypes, MaxRows)
RootNames == 1..MaxRaw

\* File names are sequences of characters.
FltSuffix == <<"_", "f", "l", "t", ".", "f", "i", "t", "s">>
FlcSuffix == <<"_", "f", "l", "c", ".", "f", "i", "t", "s">>

\* Exposure names of visit 60 of program 10775: j9l960a<c>q
RootNameOf(c) == <<"j", "9", "l", "9", "6", "0", "a", c, "q">>

\* The exposure the notebook plots: 'j9l960a7q'
PlottedRoot == RootNameOf("7")

\* Names the other exposures of the association may have
OtherRoots == {RootNameOf(c) : c \in {"9", "f", "g"}}

\* One header access: the keyword, the kind of file, read or write, and who
\* makes it (the notebook's own code or the name of an external tool)
HeaderOp(kw, file, op, by) == [kw |-> kw, file |-> file, op |-> op, by |-> by]

HeaderGet_Assigns(kw, file) == HeaderOp(kw, file, "write", "notebook")

\* The notebook reads a keyword: fits.getheader(file)[kw], hdu.header[kw],
\* header.get(kw), fits.getdata(file, 1)[kw]
HeaderGet(kw, file) == HeaderOp(kw, file, "read", "notebook")

\* An external tool writes a keyword
ToolWrite(kw, file, tool) == HeaderOp(kw, file, "write", tool)

\* State after the download and rename cells: an association table and the
\* raw files of its exposures are in the working directory.
AcsInit ==
    /\ pc = "acs_names" /\ status = "running" /\ out = <<>> /\ log = <<>>
    /\ err = NoErr
    /\ asn_disk \in AsnTables
    /\ asn_tab = <<>>
    /\ raw_files = {}
    /\ cte_correct = FALSE
    /\ pctecorr \in [RootNames -> {"PERFORM", "OMIT"}]
    /\ rootname \in {r \in [RootNames -> {PlottedRoot} \cup OtherRoots] :
                        /\ r[1] = PlottedRoot
                        /\ \A i, j \in RootNames : r[i] = r[j] => i = j}
    /\ environ = {}
    /\ bestrefs = {}
    /\ calacs_asn = NotRun
    /\ products = {} /\ fl_fits = <<>> /\ img_files = <<>> /\ wcs_updated = {}
    /\ fits_ops = {}
    /\ SkyIdle /\ FluxIdle /\ ScaleIdle /\ SynIdle /\ ColIdle /\ WfcIdle

AcsCellOrder_BestrefsFirst ==
    <<"acs_names", "acs_filter", "acs_cte", "acs_pctecorr", "acs_bestrefs",
      "acs_environ", "acs_calacs", "acs_select", "acs_plot", "acs_updatewcs">>

\* The code cells of the notebook from the file-name cell on, top to bottom
AcsCellOrder ==
    <<"acs_names", "acs_filter", "acs_cte", "acs_pctecorr", "acs_environ",
      "acs_bestrefs", "acs_calacs", "acs_select", "acs_plot", "acs_updatewcs">>

\* The cell below `cell`, "end" after the last one
AcsAfter(cell) ==
    LET i == CHOOSE k \in 1..Len(AcsCellOrder) : AcsCellOrder[k] = cell
    IN  IF i = Len(AcsCellOrder) THEN "end" ELSE AcsCellOrder[i + 1]

\* asn_file = 'j9l960010_asn.fits'; raw_files = glob.glob('*_raw.fits')
AcsNames ==
    /\ At("acs_names")
    /\ raw_files' = DOMAIN pctecorr
    /\ Goto(AcsAfter("acs_names"))
    /\ UNCHANGED <<out, log, err, asn_disk, asn_tab, cte_correct, pctecorr,
                   rootname, environ, bestrefs, calacs_asn, products, fl_fits,
                   img_files, wcs_updated, fits_ops>>
    /\ UNCHANGED not_acs

\* asn_tab[asn_tab['MEMTYPE'] == 'EXP-DTH']: a new table holding the selected rows
FilterMemtype(tab) == SelectSeq(tab, LAMBDA t : t = "EXP-DTH")

\* What closing a file opened with mode='update' writes back: the data the
\* HDU holds.  The cell binds the table it selected to the name asn_tab only
\* and never assigns it to asn_hdu[1].data, so the HDU holds the table as read.
FlushOnClose(hdu_data, local_tab) == hdu_data

\* with fits.open(asn_file, mode='update') as asn_hdu: ...
AcsFilterAsn ==
    /\ At("acs_filter")
    /\ LET hdu_data == asn_disk
           tab      == FilterMemtype(hdu_data)
       IN  /\ asn_tab' = tab
           /\ asn_disk' = FlushOnClose(hdu_data, tab)
    /\ Goto(AcsAfter("acs_filter"))
    /\ UNCHANGED <<out, log, err, raw_files, cte_correct, pctecorr, rootname,
                   environ, bestrefs, calacs_asn, products, fl_fits, img_files,
                   wcs_updated, fits_ops>>
    /\ UNCHANGED not_acs

\* cte_correct = False (the user may change it to True)
AcsSetCte ==
    /\ At("acs_cte")
    /\ cte_correct' \in BOOLEAN
    /\ Goto(AcsAfter("acs_cte"))
    /\ UNCHANGED <<out, log, err, asn_disk, asn_tab, raw_files, pctecorr,
                   rootname, environ, bestrefs, calacs_asn, products, fl_fits,
                   img_files, wcs_updated, fits_ops>>
    /\ UNCHANGED not_acs

PctecorrValue_Inverted(cte) == IF cte THEN "OMIT" ELSE "PERFORM"

PctecorrValue(cte) == IF cte THEN "PERFORM" ELSE "OMIT"

\* fits.setval(file, keyword, value=value) on a raw file
SetvalOp(keyword) == HeaderOp(keyword, "raw", "write", "notebook")

\* for file in raw_files: fits.setval(file, 'PCTECORR', value=value)
AcsSetPctecorr ==
    /\ At("acs_pctecorr")
    /\ pctecorr' = [f \in DOMAIN pctecorr |->
                        IF f \in raw_files THEN PctecorrValue(cte_correct)
                        ELSE pctecorr[f]]
    /\ fits_ops' = fits_ops \cup {SetvalOp("PCTECORR") : f \in raw_files}
    /\ log' = Append(log, "setval PCTECORR")
    /\ Goto(AcsAfter("acs_pctecorr"))
    /\ UNCHANGED <<out, err, asn_disk, asn_tab, raw_files, cte_correct,
                   rootname, environ, bestrefs, calacs_asn, products, fl_fits,
                   img_files, wcs_updated>>
    /\ UNCHANGED not_acs

\* os.environ[...] = ... for the four CRDS variables
AcsSetEnviron ==
    /\ At("acs_environ")
    /\ environ' = environ \cup {"CRDS_SERVER_URL", "CRDS_SERVER", "CRDS_PATH", "jref"}
    /\ log' = Append(log, "os.environ")
    /\ Goto(AcsAfter("acs_environ"))
    /\ UNCHANGED <<out, err, asn_disk, asn_tab, raw_files, cte_correct,
                   pctecorr, rootname, bestrefs, calacs_asn, products, fl_fits,
                   img_files, wcs_updated, fits_ops>>
    /\ UNCHANGED not_acs

\* for file in raw_files: !crds bestrefs --files {file} ... --update-bestrefs
\* (a shell escape: a failing command does not raise)
AcsBestrefs ==
    /\ At("acs_bestrefs")
    /\ bestrefs' = bestrefs \cup raw_files
    /\ fits_ops' = fits_ops \cup
                      {HeaderOp("reference files", "raw", "write", "crds") :
                          f \in raw_files}
    /\ log' = Append(log, "crds bestrefs")
    /\ Goto(AcsAfter("acs_bestrefs"))
    /\ UNCHANGED <<out, err, asn_disk, asn_tab, raw_files, cte_correct,
                   pctecorr, rootname, environ, calacs_asn, products, fl_fits,
                   img_files, wcs_updated>>
    /\ UNCHANGED not_acs

\* The calibrated files calacs writes for the exposures: an FLT file for
\* every exposure and an FLC file for every exposure whose PCTECORR is
\* 'PERFORM'
CalacsProducts(names, switch) ==
    {names[f] \o FltSuffix : f \in DOMAIN names}
        \cup {names[f] \o FlcSuffix : f \in {g \in DOMAIN names : switch[g] = "PERFORM"}}

\* !calacs.e j9l960010_asn.fits : calacs reads the association file on disk.
\* A shell escape does not raise: a failing calacs leaves no products.
AcsCalacs ==
    /\ At("acs_calacs")
    /\ calacs_asn' = asn_disk
    /\ log' = Append(log, "calacs.e")
    /\ \/ /\ products' = CalacsProducts(rootname, pctecorr)
          /\ fits_ops' = fits_ops \cup {HeaderOp("all", "flt", "write", "calacs")}
       \/ /\ products' = {}
          /\ UNCHANGED fits_ops
    /\ Goto(AcsAfter("acs_calacs"))
    /\ UNCHANGED <<out, err, asn_disk, asn_tab, raw_files, cte_correct,
                   pctecorr, rootname, environ, bestrefs, fl_fits, img_files,
                   wcs_updated>>
    /\ UNCHANGED not_acs

\* 'j9l960a7q_flc.fits' if cte_correct else 'j9l960a7q_flt.fits'
FlFits(cte) == PlottedRoot \o (IF cte THEN FlcSuffix ELSE FltSuffix)

\* if cte_correct: fl_fits = ... else: fl_fits = ...
AcsSelect ==
    /\ At("acs_select")
    /\ fl_fits' = FlFits(cte_correct)
    /\ Goto(AcsAfter("acs_select"))
    /\ UNCHANGED <<out, log, err, asn_disk, asn_tab, raw_files, cte_correct,
                   pctecorr, rootname, environ, bestrefs, calacs_asn, products,
                   img_files, wcs_updated, fits_ops>>
    /\ UNCHANGED not_acs

\* raw_image = fits.getdata('j9l960a7q_raw.fits'); cal_image = fits.getdata(fl_fits)
\* getdata raises FileNotFoundError when the file does not exist
AcsPlot ==
    /\ At("acs_plot")
    /\ IF /\ \E f \in DOMAIN rootname : rootname[f] = PlottedRoot
          /\ fl_fits \in products
       THEN Goto(AcsAfter("acs_plot")) /\ UNCHANGED err
       ELSE Raise([type |-> "FileNotFoundError"])
    /\ UNCHANGED <<out, log, asn_disk, asn_tab, raw_files, cte_correct,
                   pctecorr, rootname, environ, bestrefs, calacs_asn, products,
                   fl_fits, img_files, wcs_updated, fits_ops>>
    /\ UNCHANGED not_acs

\* Characters in the order of their code points (only the order matters)
AsciiOrder ==
    <<".", "0", "1", "2", "3", "4", "5", "6", "7", "8", "9", "_",
      "a", "b", "c", "d", "e", "f", "g", "h", "i", "j", "k", "l", "m",
      "n", "o", "p", "q", "r", "s", "t", "u", "v", "w", "x", "y", "z">>

Ord(c) == CHOOSE i \in 1..Len(AsciiOrder) : AsciiOrder[i] = c

\* Shell-style matching of a file name against a pattern, as glob does it:
\* '*' matches any run of characters, '[a-b]' one character in the range,
\* any other character itself
RECURSIVE Fnmatch(_, _)
Fnmatch(name, pat) ==
    IF pat = <<>> THEN name = <<>>
    ELSE IF Head(pat) = "*"
    THEN \/ Fnmatch(name, Tail(pat))
         \/ name # <<>> /\ Fnmatch(Tail(name), pat)
    ELSE IF Head(pat) = "["
    THEN /\ name # <<>>
         /\ Ord(pat[2]) <= Ord(Head(name))
         /\ Ord(Head(name)) <= Ord(pat[4])
         /\ Fnmatch(Tail(name), SubSeq(pat, 6, Len(pat)))
    ELSE /\ name # <<>>
         /\ Head(name) = Head(pat)
         /\ Fnmatch(Tail(name), Tail(pat))

\* 'j9l9*a[9-f]q_flc.fits' if cte_correct else 'j9l9*a[9-f]q_flt.fits'
ImgFiles(cte) ==
    <<"j", "9", "l", "9", "*", "a", "[", "9", "-", "f", "]", "q">>
        \o (IF cte THEN FlcSuffix ELSE FltSuffix)

\* updatewcs.updatewcs(img_files, use_db=False): the files matching the
\* pattern get their WCS keywords updated
AcsUpdatewcs ==
    /\ At("acs_updatewcs")
    /\ img_files' = ImgFiles(cte_correct)
    /\ wcs_updated' = {p \in products : Fnmatch(p, ImgFiles(cte_correct))}
    /\ fits_ops' = fits_ops \cup
                      {HeaderOp("WCS", "flt", "write", "updatewcs") :
                          p \in {q \in products : Fnmatch(q, ImgFiles(cte_correct))}}
    /\ log' = Append(log, "updatewcs")
    /\ Goto(AcsAfter("acs_updatewcs"))
    /\ UNCHANGED <<out, err, asn_disk, asn_tab, raw_files, cte_correct,
                   pctecorr, rootname, environ, bestrefs, calacs_asn, products,
                   fl_fits>>
    /\ UNCHANGED not_acs

AcsNext ==
    \/ AcsNames
    \/ AcsFilterAsn
    \/ AcsSetCte
    \/ AcsSetPctecorr
    \/ AcsSetEnviron
    \/ AcsBestrefs
    \/ AcsCalacs
    \/ AcsSelect
    \/ AcsPlot
    \/ AcsUpdatewcs

SpecACS == AcsInit /\ [][AcsNext]_vars

\* C1: after the association-filter cell, the association file calacs reads
\* holds only rows whose MEMTYPE is 'EXP-DTH' (no 'PROD-DTH' row is left).
C1_CalacsReadsOnlyExpDth ==
    calacs_asn # NotRun =>
        \A i \in 1..Len(calacs_asn) : calacs_asn[i] = "EXP-DTH"

\* The step has been executed
Ran(step) == \E i \in 1..Len(log) : log[i] = step

\* Position of the first execution of the step in the log, 0 if it has not run
LogPos(step) ==
    IF Ran(step) THEN CHOOSE i \in 1..Len(log) :
                          log[i] = step /\ \A j \in 1..(i - 1) : log[j] # step
    ELSE 0

\* The last nine characters of a file name or pattern
SuffixOf(name) == SubSeq(name, Len(name) - 8, Len(name))

\* The suffix that goes with the CTE setting
CteSuffix == IF cte_correct THEN FlcSuffix ELSE FltSuffix

\* C12: once the PCTECORR cell has run, every raw file has PCTECORR 'PERFORM'
\* if cte_correct is True and 'OMIT' if it is False; the file selected for
\* plotting and the pattern given to updatewcs carry the matching suffix
\* (_flc with PERFORM, _flt with OMIT), and the selected file is one that
\* calacs produced under that setting: the plot cell never fails to find it
\* when calacs has written its products.
C12_CteSwitchSelectsProducedType ==
    /\ Ran("setval PCTECORR") =>
          \A f \in DOMAIN pctecorr :
              pctecorr[f] = IF cte_correct THEN "PERFORM" ELSE "OMIT"
    /\ fl_fits # <<>> =>
          /\ fl_fits = PlottedRoot \o CteSuffix
          /\ products # {} => fl_fits \in products
    /\ img_files # <<>> =>
          /\ SuffixOf(img_files) = CteSuffix
          /\ \A p \in wcs_updated : p \in products /\ SuffixOf(p) = CteSuffix
    /\ err.type = "FileNotFoundError" => products = {}

\* C12 witness: a complete run with CTE correction enabled, in which the
\* FLC file of j9l960a7q was produced, selected and plotted
C12_Witness_FlcSelected ==
    /\ status = "done" /\ pc = "end"
    /\ cte_correct
    /\ fl_fits = PlottedRoot \o FlcSuffix
    /\ fl_fits \in products
    /\ \A f \in DOMAIN pctecorr : pctecorr[f] = "PERFORM"

\* C13: after the last cell, every calibrated file of the selected type
\* (FLT, or FLC with CTE correction) that calacs produced, the plotted
\* j9l960a7q included, has had its WCS keywords updated.
C13_WcsUpdatedInEveryProduct ==
    (status = "done" /\ Ran("updatewcs")) =>
        \A p \in products : SuffixOf(p) = CteSuffix => p \in wcs_updated

\* C14: calacs.e runs only after the CRDS environment variables are set,
\* PCTECORR is written to every raw file and crds bestrefs has been run on
\* every raw file; crds bestrefs never runs before the environment variables
\* are set.
C14_CalacsAfterSetup ==
    /\ Ran("calacs.e") =>
          /\ LogPos("os.environ") \in 1..(LogPos("calacs.e") - 1)
          /\ LogPos("setval PCTECORR") \in 1..(LogPos("calacs.e") - 1)
          /\ LogPos("crds bestrefs") \in 1..(LogPos("calacs.e") - 1)
          /\ {"CRDS_SERVER_URL", "CRDS_PATH", "jref"} \subseteq environ
          /\ raw_files = DOMAIN pctecorr
          /\ bestrefs = DOMAIN pctecorr
          /\ SetvalOp("PCTECORR") \in fits_ops
    /\ Ran("crds bestrefs") =>
          /\ LogPos("os.environ") \in 1..(LogPos("crds bestrefs") - 1)
          /\ {"CRDS_SERVER_URL", "CRDS_PATH", "jref"} \subseteq environ

\* C14 witness: calacs.e has run on an association with two raw files
C14_Witness_CalacsRan ==
    /\ Ran("calacs.e")
    /\ Cardinality(raw_files) >= 2
    /\ bestrefs = raw_files

(***************************************************************************)
(* Sky-matching notebook                                                   *)
(***************************************************************************)
MaxLines == 2
MaxLineLen == 3
MaxDrz == 1

\* Characters of a line of shift_drz.txt
Alphabet == {"n", "a"}
ShiftLines == SeqsUpTo(Alphabet, MaxLineLen)
ShiftFiles == SeqsUpTo(ShiftLines, MaxLines)
DrzNames == 1..MaxDrz

\* Number of sources of an image that TweakReg matches to the Gaia catalogue
\* (an image with fewer than three gets no fit in either call)
MatchCounts == {3, 4}

\* ext_0_kws and ext_1_kws: the keywords the header-inspection cell prints
InspectedKeywords == {"DETECTOR", "WCSNAME", "NMATCHES", "RMS_RA", "RMS_DEC"}

\* State after the download and header-inspection cells: the DRZ files are
\* in the working directory
SkyInit ==
    /\ pc = "sky_tweakreg1" /\ status = "running" /\ out = <<>> /\ log = <<>>
    /\ err = NoErr
    /\ drz_disk = DrzNames
    /\ drz_files = {}
    /\ shift_file = NotRun
    /\ drz_hdr = {} /\ flt_hdr = {} /\ drizzled = {}
    /\ nmatches \in [DrzNames -> MatchCounts]
    /\ tweak_calls = <<>>
    /\ fits_ops = {HeaderGet(kw, "drz") : kw \in InspectedKeywords}
    /\ WfcIdle
    /\ AcsIdle /\ FluxIdle /\ ScaleIdle /\ SynIdle /\ ColIdle

\* An external tool failed with an exception of its own
ToolError == [type |-> "ToolError"]

TweakRegHeaderWrites_IgnoresFlag(files, updatehdr) == files

\* The images whose header TweakReg rewrites: all of them with updatehdr=True,
\* none with updatehdr=False
TweakRegHeaderWrites(files, updatehdr) == IF updatehdr THEN files ELSE {}

\* Keyword arguments of the first TweakReg call (conv_width and ylimit in
\* tenths)
TweakRegPar1 ==
    [threshold |-> 4, conv_width |-> 45, minobj |-> 3, shiftfile |-> TRUE,
     outshifts |-> "shift_drz.txt", refcat |-> "gaia_pm.cat", searchrad |-> 1,
     ylimit |-> 4, nclip |-> 1, updatehdr |-> FALSE, interactive |-> FALSE]

\* Keyword arguments of the second TweakReg call; outshifts is not passed
TweakRegPar2 ==
    [threshold |-> 4, conv_width |-> 45, minobj |-> 4, shiftfile |-> FALSE,
     outshifts |-> "(default)", refcat |-> "gaia_pm.cat", searchrad |-> 1,
     ylimit |-> 4, nclip |-> 1, updatehdr |-> TRUE, interactive |-> FALSE]

\* The images for which TweakReg computes a fit: those with at least minobj
\* matched sources
TweakRegFit(files, n, par) == {f \in files : n[f] >= par.minobj}

\* drz_files = sorted(glob.glob('*drz.fits'));
\* tweakreg.TweakReg(drz_files, ..., minobj=3, shiftfile=True,
\*                   outshifts='shift_drz.txt', updatehdr=False)
SkyTweakReg1 ==
    /\ At("sky_tweakreg1")
    /\ drz_files' = drz_disk
    /\ log' = Append(log, "TweakReg updatehdr=False")
    /\ \/ LET par    == TweakRegPar1
              fitted == TweakRegFit(drz_disk, nmatches, par)
          IN  /\ shift_file' \in ShiftFiles
              /\ drz_hdr' = drz_hdr \cup TweakRegHeaderWrites(fitted, par.updatehdr)
              /\ tweak_calls' = Append(tweak_calls, [par |-> par, fitted |-> fitted])
          /\ Goto("sky_nancheck")
          /\ UNCHANGED err
       \/ /\ Raise(ToolError)
          /\ UNCHANGED <<shift_file, drz_hdr, tweak_calls>>
    /\ UNCHANGED <<out, drz_disk, flt_hdr, drizzled, nmatches, fits_ops>>
    /\ UNCHANGED not_sky

\* "nan" in line
NanIn(line) ==
    \E k \in 1..(Len(line) - 2) :
        line[k] = "n" /\ line[k + 1] = "a" /\ line[k + 2] = "n"

\* for line_number, line in enumerate(shift, start): the number of the line
\* at which the loop raises, 0 when it runs to the end of the file
RECURSIVE ScanShift(_, _)
ScanShift(lines, line_number) ==
    IF lines = <<>> THEN 0
    ELSE IF NanIn(Head(lines)) THEN line_number
    ELSE ScanShift(Tail(lines), line_number + 1)

NanCheck_FromZero(lines) == ScanShift(lines, 0)

NanCheck(lines) == ScanShift(lines, 1)

\* with open('shift_drz.txt', 'r') as shift: ... raise ValueError(...)
SkyNanCheck ==
    /\ At("sky_nancheck")
    /\ log' = Append(log, "nan check")
    /\ LET n == NanCheck(shift_file)
       IN  IF n # 0
           THEN Raise([type |-> "ValueError", line_number |-> n])
           ELSE Goto("sky_inspect") /\ UNCHANGED err
    /\ UNCHANGED <<out, sky_vars, fits_ops>>
    /\ UNCHANGED not_sky

\* The cells that read the shift file, the match files and the images to
\* print tables and draw plots; they write nothing
SkyInspect ==
    /\ At("sky_inspect")
    /\ Goto("sky_tweakreg2")
    /\ UNCHANGED <<out, log, err, sky_vars, fits_ops>>
    /\ UNCHANGED not_sky

\* tweakreg.TweakReg(drz_files, ..., minobj=4, shiftfile=False, updatehdr=True)
SkyTweakReg2 ==
    /\ At("sky_tweakreg2")
    /\ log' = Append(log, "TweakReg updatehdr=True")
    /\ \/ LET par    == TweakRegPar2
              fitted == TweakRegFit(drz_files, nmatches, par)
          IN  /\ drz_hdr' = drz_hdr \cup TweakRegHeaderWrites(fitted, par.updatehdr)
              /\ tweak_calls' = Append(tweak_calls, [par |-> par, fitted |-> fitted])
              /\ fits_ops' = fits_ops \cup
                     {ToolWrite("WCSNAME", "drz", "tweakreg") :
                         f \in TweakRegHeaderWrites(fitted, par.updatehdr)}
          /\ Goto("sky_tweakback")
          /\ UNCHANGED err
       \/ /\ Raise(ToolError)
          /\ UNCHANGED <<drz_hdr, tweak_calls, fits_ops>>
    /\ UNCHANGED <<out, drz_disk, drz_files, shift_file, flt_hdr, drizzled,
                   nmatches>>
    /\ UNCHANGED not_sky

\* for f in drz_files: tweakback.apply_tweak(f+'[sci,1]', orig_wcs_name=...)
\* The loop stops at the first file on which apply_tweak raises.
SkyTweakback ==
    /\ At("sky_tweakback")
    /\ log' = Append(log, "tweakback")
    /\ \/ /\ flt_hdr' = flt_hdr \cup drz_files
          /\ fits_ops' = fits_ops
                 \cup {HeaderGet("WCSNAME", "drz") : f \in drz_files}
                 \cup {ToolWrite("WCSNAME", "flt", "tweakback") : f \in drz_files}
          /\ Goto("sky_adriz_localmin")
          /\ UNCHANGED err
       \/ /\ \E done \in SUBSET drz_files :
                /\ done # drz_files
                /\ flt_hdr' = flt_hdr \cup done
                /\ fits_ops' = fits_ops
                       \cup {HeaderGet("WCSNAME", "drz")}
                       \cup {ToolWrite("WCSNAME", "flt", "tweakback") : f \in done}
          /\ Raise(ToolError)
    /\ UNCHANGED <<out, drz_disk, drz_files, shift_file, drz_hdr, drizzled,
                   nmatches, tweak_calls>>
    /\ UNCHANGED not_sky

\* astrodrizzle.AstroDrizzle('*flt.fits', output=..., skymethod=sky, ...)
AstroDrizzle(cell, sky, output, next) ==
    /\ At(cell)
    /\ log' = Append(log, "AstroDrizzle " \o sky)
    /\ \/ /\ drizzled' = drizzled \cup {output}
          /\ fits_ops' = fits_ops \cup {ToolWrite("MDRIZSKY", "flt", "astrodrizzle")}
          /\ Goto(next)
          /\ UNCHANGED err
       \/ /\ Raise(ToolError)
          /\ UNCHANGED <<drizzled, fits_ops>>
    /\ UNCHANGED <<out, drz_disk, drz_files, shift_file, drz_hdr, flt_hdr,
                   nmatches, tweak_calls>>
    /\ UNCHANGED not_sky

SkyDrizzleLocalmin ==
    AstroDrizzle("sky_adriz_localmin", "localmin", "f160w_localmin",
                 "sky_adriz_match")

SkyDrizzleMatch ==
    AstroDrizzle("sky_adriz_match", "match", "f160w_match",
                 "sky_adriz_globalmin_match")

SkyDrizzleGlobalminMatch ==
    AstroDrizzle("sky_adriz_globalmin_match", "globalmin+match",
                 "f160w_globalmin_match", "sky_adriz_globalmin")

SkyDrizzleGlobalmin ==
    AstroDrizzle("sky_adriz_globalmin", "globalmin", "f160w_globalmin",
                 "sky_mdrizsky")

\* mdrizsky_val = pandas.DataFrame({... fits.getdata('f160w_<method>_drz_sci.fits',
\* 1)['mdrizsky'] ...}): the sky values are read from the four products
SkyReadMdrizsky ==
    /\ At("sky_mdrizsky")
    /\ fits_ops' = fits_ops \cup {HeaderGet("MDRIZSKY", "drz_sci")}
    /\ Goto("end")
    /\ UNCHANGED <<out, log, err, sky_vars>>
    /\ UNCHANGED not_sky

SkyNext ==
    \/ SkyTweakReg1
    \/ SkyNanCheck
    \/ SkyInspect
    \/ SkyTweakReg2
    \/ SkyTweakback
    \/ SkyDrizzleLocalmin
    \/ SkyDrizzleMatch
    \/ SkyDrizzleGlobalminMatch
    \/ SkyDrizzleGlobalmin
    \/ SkyReadMdrizsky

SpecSky == SkyInit /\ [][SkyNext]_vars

\* The nan check cell has been executed (it passed or it raised)
SkyNanCheckRan == \E i \in 1..Len(log) : log[i] = "nan check"

\* Line i of the shift file holds the three characters n, a, n in a row
HoldsNan(i) ==
    \E k \in 1..Len(shift_file[i]) :
        /\ k + 2 <= Len(shift_file[i])
        /\ SubSeq(shift_file[i], k, k + 2) = <<"n", "a", "n">>

NanLines == {i \in 1..Len(shift_file) : HoldsNan(i)}

\* C2: the shift-file check raises ValueError if and only if some line of
\* shift_drz.txt contains 'nan'; the line number reported is the 1-based
\* number of the first such line; with no such line the cell completes
\* without error.
C2_NanCheckRaisesAtFirstNanLine ==
    SkyNanCheckRan =>
        /\ (err.type = "ValueError") <=> (NanLines # {})
        /\ err.type = "ValueError" =>
              /\ err.line_number \in NanLines
              /\ \A i \in NanLines : err.line_number <= i
        /\ NanLines = {} => pc # "sky_nancheck"

\* C2 witness: the check raised on a file whose first line is clean and
\* whose second line contains 'nan'
C2_Witness_RaisedAtLine2 ==
    /\ SkyNanCheckRan
    /\ status = "raised" /\ err.type = "ValueError"
    /\ NanLines = {2}
    /\ err.line_number = 2
\* The steps of the notebook in the order of its cells
SkyOrder ==
    <<"TweakReg updatehdr=False", "nan check", "TweakReg updatehdr=True",
      "tweakback", "AstroDrizzle localmin", "AstroDrizzle match",
      "AstroDrizzle globalmin+match", "AstroDrizzle globalmin">>

\* C3: the steps occur in the order TweakReg(updatehdr=False) -> nan check ->
\* TweakReg(updatehdr=True) -> tweakback -> the four AstroDrizzle runs; if the
\* nan check raises, no later step is executed, and a shift file with a nan
\* line is never followed by a write to any image header.
C3_OrderAndNoHeaderWriteAfterNan ==
    /\ Len(log) <= Len(SkyOrder)
    /\ log = SubSeq(SkyOrder, 1, Len(log))
    /\ err.type = "ValueError" =>
          /\ log = SubSeq(SkyOrder, 1, 2)
          /\ drz_hdr = {} /\ flt_hdr = {} /\ drizzled = {}
    /\ (drz_hdr # {} \/ flt_hdr # {} \/ drizzled # {}) =>
          /\ SkyNanCheckRan
          /\ NanLines = {}

\* C3 witness: the nan check raised on a run that has DRZ images to align
C3_Witness_StoppedAtNanCheck ==
    /\ err.type = "ValueError"
    /\ drz_files # {}
    /\ Len(log) = 2

\* A complete run: all four drizzled products written after the headers
SkyCompleteRun ==
    /\ status = "done" /\ pc = "end"
    /\ drz_hdr = drz_files /\ flt_hdr = drz_files /\ drz_files # {}
    /\ Cardinality(drizzled) = 4

\* The second TweakReg call has returned
SkyTweakReg2Returned == Len(tweak_calls) = 2

\* C11: the second TweakReg call uses the parameters of the first one with
\* updatehdr=True as the only difference, and the images whose header WCS
\* it writes are the images whose fit was inspected after the first call.
C11_RerunWithSameParameters ==
    SkyTweakReg2Returned =>
        /\ tweak_calls[2].par = [tweak_calls[1].par EXCEPT !.updatehdr = TRUE]
        /\ drz_hdr = tweak_calls[1].fitted

(***************************************************************************)
(* Flux-scaling notebook: download, consolidation, first co-add            *)
(***************************************************************************)
\* The X1D files the notebook works with; each is delivered in the folder
\* of its own dataset, mastDownload/HST/<obs_id>/<obs_id>_x1d.fits
X1DFiles == {"o5jy03010_x1d.fits", "o5jy03020_x1d.fits", "o5jy03030_x1d.fits"}

\* All orders in which os.listdir and glob.glob may deliver a set of files
RECURSIVE Perms(_)
Perms(S) ==
    IF S = {} THEN {<<>>}
    ELSE UNION {{<<x>> \o p : p \in Perms(S \ {x})} : x \in S}



\* The program named by the text of the tutorial: "We will specifically
\* download data from Program 8345"
TutorialProgram == 8345

\* proposal_id=8435 in Observations.query_criteria
QueryProposalId == 8435

\* hst_<programID>_<instrument>_<target>_<grating>_<obset>_cspec.fits
CspecName(program, instrument, target, grating, obset) ==
    [program |-> program, instrument |-> instrument, target |-> target,
     grating |-> grating, obset |-> obset, kind |-> "cspec"]

\* coadd = "hst_8435_stis_g191b2b_e140m_o5jy_cspec.fits"
CoaddName == CspecName(8435, "stis", "g191b2b", "e140m", "o5jy")

\* State after the mkdir cell.  ./stis_data exists; it may hold files, and a
\* mastDownload tree, left by an earlier run.
FluxInit ==
    /\ pc = "flux_query" /\ status = "running" /\ out = <<>> /\ log = <<>>
    /\ err = NoErr
    /\ g191_query = 0 /\ coadd = <<>> /\ stis_products = {}
    /\ stis_scaled_data = {} /\ stis_scaled_products = {} /\ opened = <<>>
    /\ fs_stis \in SUBSET X1DFiles
    /\ fs_mast \in BOOLEAN
    /\ fs_mast_files \in SUBSET X1DFiles
    /\ (~fs_mast => fs_mast_files = {})
    /\ downloaded = {}
    /\ swrapper_in = {}
    /\ AcsIdle /\ SkyIdle /\ ScaleIdle /\ SynIdle /\ ColIdle /\ WfcIdle
    /\ fits_ops = {}

\* g191_query = Observations.query_criteria(proposal_id=8435,
\*     target_name="G191B2B", dataproduct_type="SPECTRUM")
FluxQuery ==
    /\ At("flux_query")
    /\ g191_query' = QueryProposalId
    /\ Goto("flux_download")
    /\ UNCHANGED <<out, log, err, fs_mast, fs_mast_files, fs_stis, downloaded,
                   swrapper_in, coadd, stis_products, stis_scaled_data,
                   stis_scaled_products, opened>>
    /\ UNCHANGED not_flux

\* Observations.download_products(g191_products, download_dir=str(stis_data_dir),
\*                                productSubGroupDescription=["X1D", "SX1"])
FluxDownload ==
    /\ At("flux_download")
    /\ log' = Append(log, "download_products")
    /\ \/ \E got \in SUBSET X1DFiles :
             /\ downloaded' = got
             /\ fs_mast_files' = fs_mast_files \cup got
             /\ fs_mast' = (fs_mast \/ got # {})
             /\ Goto("flux_consolidate")
             /\ UNCHANGED err
       \/ /\ Raise([type |-> "ToolError"])
          /\ UNCHANGED <<downloaded, fs_mast_files, fs_mast>>
    /\ UNCHANGED <<out, fs_stis, swrapper_in, coadd_vars>>
    /\ UNCHANGED not_flux

MsgNoDir == "Directory stis_data/mastDownload/HST/ doesn't exist."
MsgError == "An error occurred"

MoveInto_WorkingDir(stis, moved) == stis

\* new_path = stis_data_dir / file_path.name; shutil.move(file, new_path):
\* the content of ./stis_data after the files in moved have been moved
MoveInto(stis, moved) == stis \cup moved

\* The body of the try block on the file system fsys.  order is the order
\* in which the files are visited, nOk the number of shutil.move calls that
\* succeed before one fails, rmOk whether shutil.rmtree succeeds.  The result
\* holds the file system afterwards, the messages printed, and the exception
\* that left the block ("none" when it ran to its end).
TryBody(fsys, order, nOk, rmOk) ==
    LET pr1 == IF ~fsys.mast THEN <<MsgNoDir>> ELSE <<>>
    IN  IF ~fsys.mast
        THEN \* os.listdir(mast_path) raises
             [mast |-> fsys.mast, mast_files |-> fsys.mast_files,
              stis |-> fsys.stis, printed |-> pr1, exc |-> "FileNotFoundError"]
        ELSE LET moved == {order[i] : i \in 1..nOk}
                 left  == fsys.mast_files \ moved
                 stis2 == MoveInto(fsys.stis, moved)
             IN  IF nOk < Len(order)
                 THEN \* shutil.move raises
                      [mast |-> TRUE, mast_files |-> left, stis |-> stis2,
                       printed |-> pr1, exc |-> "OSError"]
                 ELSE IF rmOk
                 THEN \* shutil.rmtree removes the mastDownload tree
                      [mast |-> FALSE, mast_files |-> {}, stis |-> stis2,
                       printed |-> pr1, exc |-> "none"]
                 ELSE \* shutil.rmtree raises
                      [mast |-> TRUE, mast_files |-> left, stis |-> stis2,
                       printed |-> pr1, exc |-> "OSError"]

ExceptException_Reraise(r) == r

\* except Exception as e: print(f"An error occurred: {e}")
ExceptException(r) ==
    IF r.exc = "none" THEN r
    ELSE [r EXCEPT !.printed = Append(@, MsgError), !.exc = "none"]

\* cell: move FITS files out of mastDownload
FluxConsolidate ==
    /\ At("flux_consolidate")
    /\ log' = Append(log, "consolidate")
    /\ \E order \in Perms(fs_mast_files), rmOk \in BOOLEAN :
       \E nOk \in 0..Len(order) :
          LET fsys == [mast |-> fs_mast, mast_files |-> fs_mast_files,
                       stis |-> fs_stis]
              r    == ExceptException(TryBody(fsys, order, nOk, rmOk))
          IN  /\ fs_mast' = r.mast
              /\ fs_mast_files' = r.mast_files
              /\ fs_stis' = r.stis
              /\ out' = out \o r.printed
              /\ IF r.exc # "none"
                 THEN Raise([type |-> r.exc])
                 ELSE Goto("flux_swrapper") /\ UNCHANGED err
    /\ UNCHANGED <<downloaded, swrapper_in, coadd_vars>>
    /\ UNCHANGED not_flux

\* The co-add swrapper writes for the X1D files of a directory: it is named
\* after the program the data belong to, which is the program the archive
\* was queried for.  Without input files there is no product.
SwrapperProducts(files, program) ==
    IF files = {} THEN {}
    ELSE {CspecName(program, "stis", "g191b2b", "e140m", "o5jy")}

\* !swrapper -i ./stis_data -o ./stis_products  (a shell escape never raises;
\* a failing swrapper writes nothing)
FluxSwrapper ==
    /\ At("flux_swrapper")
    /\ log' = Append(log, "swrapper -i ./stis_data -o ./stis_products")
    /\ swrapper_in' = fs_stis
    /\ stis_products' \in {SwrapperProducts(fs_stis, g191_query), {}}
    /\ Goto("flux_coadd_name")
    /\ UNCHANGED <<out, err, fs_mast, fs_mast_files, fs_stis, downloaded,
                   g191_query, coadd, stis_scaled_data, stis_scaled_products,
                   opened>>
    /\ UNCHANGED not_flux

\* coadd = "hst_8435_stis_g191b2b_e140m_o5jy_cspec.fits"
FluxCoaddName ==
    /\ At("flux_coadd_name")
    /\ coadd' = CoaddName
    /\ Goto("flux_open_coadd")
    /\ UNCHANGED <<out, log, err, fs_mast, fs_mast_files, fs_stis, downloaded,
                   swrapper_in, g191_query, stis_products, stis_scaled_data,
                   stis_scaled_products, opened>>
    /\ UNCHANGED not_flux

\* fits.open(path) raises FileNotFoundError when the file does not exist
FitsOpenFails(name, dir_content) == name \notin dir_content

\* coadd_hdul = fits.open(f"{stis_products_dir}/{coadd}"); then the three
\* input spectra are opened in ./stis_data
FluxOpenCoadd ==
    /\ At("flux_open_coadd")
    /\ IF FitsOpenFails(coadd, stis_products)
       THEN Raise([type |-> "FileNotFoundError"]) /\ UNCHANGED opened
       ELSE /\ opened' = Append(opened, <<"stis_products", coadd>>)
            /\ IF X1DFiles \subseteq fs_stis
               THEN Goto("flux_scale") /\ UNCHANGED err
               ELSE Raise([type |-> "FileNotFoundError"])
    /\ UNCHANGED <<out, log, fs_mast, fs_mast_files, fs_stis, downloaded,
                   swrapper_in, g191_query, coadd, stis_products,
                   stis_scaled_data, stis_scaled_products>>
    /\ UNCHANGED not_flux

\* Section 4 as far as files go: the three spectra are read from
\* ./stis_data, scaled and written under the same names to
\* ./stis_scaled_data (g191_hdul.writeto(..., overwrite=True))
FluxWriteScaled ==
    /\ At("flux_scale")
    /\ stis_scaled_data' = stis_scaled_data \cup X1DFiles
    /\ Goto("flux_swrapper_scaled")
    /\ UNCHANGED <<out, log, err, fs_mast, fs_mast_files, fs_stis, downloaded,
                   swrapper_in, g191_query, coadd, stis_products,
                   stis_scaled_products, opened>>
    /\ UNCHANGED not_flux

\* !swrapper -i ./stis_scaled_data -o ./stis_scaled_products
FluxSwrapperScaled ==
    /\ At("flux_swrapper_scaled")
    /\ log' = Append(log, "swrapper -i ./stis_scaled_data -o ./stis_scaled_products")
    /\ stis_scaled_products' \in {SwrapperProducts(stis_scaled_data, g191_query), {}}
    /\ Goto("flux_open_scaled")
    /\ UNCHANGED <<out, err, fs_mast, fs_mast_files, fs_stis, downloaded,
                   swrapper_in, g191_query, coadd, stis_products,
                   stis_scaled_data, opened>>
    /\ UNCHANGED not_flux

\* gd191_scaled_hdul = fits.open(f"{stis_scaled_products_dir}/{coadd}")
FluxOpenScaledCoadd ==
    /\ At("flux_open_scaled")
    /\ IF FitsOpenFails(coadd, stis_scaled_products)
       THEN Raise([type |-> "FileNotFoundError"]) /\ UNCHANGED opened
       ELSE /\ opened' = Append(opened, <<"stis_scaled_products", coadd>>)
            /\ Goto("end")
            /\ UNCHANGED err
    /\ UNCHANGED <<out, log, fs_mast, fs_mast_files, fs_stis, downloaded,
                   swrapper_in, g191_query, coadd, stis_products,
                   stis_scaled_data, stis_scaled_products>>
    /\ UNCHANGED not_flux

FluxNext ==
    \/ FluxQuery
    \/ FluxDownload
    \/ FluxConsolidate
    \/ FluxSwrapper
    \/ FluxCoaddName
    \/ FluxOpenCoadd
    \/ FluxWriteScaled
    \/ FluxSwrapperScaled
    \/ FluxOpenScaledCoadd

SpecFlux == FluxInit /\ [][FluxNext]_vars

\* C4: the file-consolidation cell never propagates an exception; when
\* stis_data/mastDownload/HST/ does not exist it prints diagnostics, moves and
\* deletes nothing, and leaves the file system unchanged.
C4_ConsolidationNeverRaises ==
    [][At("flux_consolidate") =>
          /\ status' # "raised"
          /\ pc' = "flux_swrapper"
          /\ ~fs_mast =>
                /\ out' = out \o <<MsgNoDir, MsgError>>
                /\ fs_stis' = fs_stis
                /\ fs_mast' = fs_mast
                /\ fs_mast_files' = fs_mast_files]_vars

\* C4 witness: the cell has run without the download directory and the kernel
\* has moved on to the next cell
C4_Witness_NoDirectory ==
    /\ pc = "flux_swrapper" /\ status = "running"
    /\ out = <<MsgNoDir, MsgError>>
    /\ ~fs_mast
    /\ fs_stis # {}

SwrapperRan ==
    \E i \in 1..Len(log) : log[i] = "swrapper -i ./stis_data -o ./stis_products"
ConsolidationRan == \E i \in 1..Len(log) : log[i] = "consolidate"
ConsolidationFailed == \E i \in 1..Len(out) : out[i] = MsgError

\* C5 as claimed: whenever the first swrapper invocation runs, every
\* downloaded file is directly in ./stis_data and none remains under
\* mastDownload.
C5_Original_SwrapperAfterSuccessfulConsolidation ==
    SwrapperRan =>
        /\ downloaded \subseteq fs_stis
        /\ fs_mast_files = {}

\* C5 as amended: whenever the first swrapper invocation runs, the
\* consolidation cell has run to its end; if it printed no error, every
\* downloaded file is directly in ./stis_data and mastDownload is gone; if it
\* printed an error, every downloaded file is still either in ./stis_data or
\* under mastDownload.
C5_SwrapperAfterConsolidationCell ==
    SwrapperRan =>
        /\ ConsolidationRan
        /\ swrapper_in = fs_stis
        /\ ~ConsolidationFailed =>
              /\ downloaded \subseteq fs_stis
              /\ fs_mast_files = {}
              /\ ~fs_mast
        /\ downloaded \subseteq (fs_stis \cup fs_mast_files)

\* C5 witness: swrapper ran after a consolidation that moved all three files
C5_Witness_AllMoved ==
    /\ SwrapperRan
    /\ swrapper_in = X1DFiles
    /\ downloaded = X1DFiles
    /\ ~ConsolidationFailed
    /\ ~fs_mast

\* C17: the program queried and downloaded is Program 8345, the program the
\* tutorial text names; the co-add name carries the same program ID and
\* follows hst_<programID>_<instrument>_<target>_<grating>_<obset>_cspec.fits;
\* the co-add is opened under that one name in stis_products and in
\* stis_scaled_products.
C17_ProgramIdentity ==
    /\ g191_query # 0 => g191_query = TutorialProgram
    /\ coadd # <<>> =>
          /\ coadd.program = g191_query
          /\ coadd = CspecName(coadd.program, coadd.instrument, coadd.target,
                               coadd.grating, coadd.obset)
    /\ \A i \in 1..Len(opened) :
          /\ opened[i][2] = coadd
          /\ opened[i][1] = (IF i = 1 THEN "stis_products"
                             ELSE "stis_scaled_products")

\* The part of C17 that the code does satisfy: query and co-add name agree
\* with each other (on 8435), and both co-adds are opened under that name
CoaddNameAgreesWithQuery ==
    /\ coadd # <<>> => coadd.program = g191_query
    /\ \A i \in 1..Len(opened) : opened[i][2] = coadd /\ coadd \in stis_products

(***************************************************************************)
(* Flux-scaling notebook: section 4, scaling the input data                *)
(*                                                                         *)
(* Flux values are integers; medians, scale factors and scaled fluxes are  *)
(* exact fractions [n, d] with d > 0.  A division by zero gives NonFinite  *)
(* (numpy's inf or nan).                                                   *)
(***************************************************************************)
MaxPix == 2

\* Values a flux element can take
FluxVals == {-1, 1, 2}
FluxArrays == SeqsUpTo(FluxVals, MaxPix) \ {<<>>}

Frac(n, d) == [n |-> n, d |-> d]
NonFinite == Frac(0, 0)
IsFinite(x) == x.d # 0
One == Frac(1, 1)

FracEq(x, y) == IsFinite(x) /\ IsFinite(y) /\ x.n * y.d = y.n * x.d
FracLeq(x, y) == IsFinite(x) /\ IsFinite(y) /\ x.n * y.d <= y.n * x.d

FracAdd(x, y) == Frac(x.n * y.d + y.n * x.d, x.d * y.d)
FracHalf(x) == Frac(x.n, 2 * x.d)

\* x * y
FracMul(x, y) ==
    IF ~IsFinite(x) \/ ~IsFinite(y) THEN NonFinite
    ELSE Frac(x.n * y.n, x.d * y.d)

FracDiv_Inverted(x, y) ==
    IF ~IsFinite(x) \/ ~IsFinite(y) \/ x.n = 0 THEN NonFinite
    ELSE IF x.n > 0 THEN Frac(y.n * x.d, y.d * x.n)
    ELSE Frac(-(y.n * x.d), y.d * (-x.n))

\* x / y
FracDiv(x, y) ==
    IF ~IsFinite(x) \/ ~IsFinite(y) \/ y.n = 0 THEN NonFinite
    ELSE IF y.n > 0 THEN Frac(x.n * y.d, x.d * y.n)
    ELSE Frac(-(x.n * y.d), x.d * (-y.n))

\* The array as fractions
AsFracs(a) == [k \in 1..Len(a) |-> Frac(a[k], 1)]

\* Insert x into the ascending sequence q
RECURSIVE FracInsert(_, _)
FracInsert(x, q) ==
    IF q = <<>> THEN <<x>>
    ELSE IF FracLeq(x, Head(q)) THEN <<x>> \o q
    ELSE <<Head(q)>> \o FracInsert(x, Tail(q))

RECURSIVE FracSort(_)
FracSort(q) == IF q = <<>> THEN <<>> ELSE FracInsert(Head(q), FracSort(Tail(q)))

\* np.median of a non-empty array: the middle element of the sorted array,
\* the mean of the two middle elements when the length is even
Median(q) ==
    IF \E k \in 1..Len(q) : ~IsFinite(q[k]) THEN NonFinite
    ELSE LET srt == FracSort(q)
             n   == Len(q)
         IN  IF n % 2 = 1 THEN srt[(n + 1) \div 2]
             ELSE FracHalf(FracAdd(srt[n \div 2], srt[n \div 2 + 1]))

\* State at the start of section 4: the three X1D files are in ./stis_data
ScaleInit ==
    /\ pc = "scale_medians" /\ status = "running" /\ out = <<>> /\ log = <<>>
    /\ err = NoErr
    /\ flux \in [1..3 -> FluxArrays]
    /\ med_spec = <<>>
    /\ scale_factor = <<>>
    /\ scaled = <<>>
    /\ AcsIdle /\ SkyIdle /\ FluxIdle /\ SynIdle /\ ColIdle /\ WfcIdle
    /\ fits_ops = {}

MsgBrightest == "The brightest spectrum is file o5jy03010_x1d.fits"

\* med_spec_010 = np.median(flux_010) ... ; the cell prints the three medians
\* and then that the first file is the brightest
ScaleMedians ==
    /\ At("scale_medians")
    /\ med_spec' = [i \in 1..3 |-> Median(AsFracs(flux[i]))]
    /\ out' = out \o <<"The median flux for file o5jy03010_x1d.fits is",
                       "The median flux for file o5jy03020_x1d.fits is",
                       "The median flux for file o5jy03030_x1d.fits is",
                       MsgBrightest>>
    /\ Goto("scale_factors")
    /\ UNCHANGED <<log, err, flux, scale_factor, scaled>>
    /\ UNCHANGED not_scale

\* scale_factor = [1.0, med_spec_010 / med_spec_020, med_spec_010 / med_spec_030]
ScaleFactorList(med) ==
    <<One, FracDiv(med[1], med[2]), FracDiv(med[1], med[3])>>

ScaleFactors ==
    /\ At("scale_factors")
    /\ scale_factor' = ScaleFactorList(med_spec)
    /\ Goto("scale_rescale")
    /\ UNCHANGED <<out, log, err, flux, med_spec, scaled>>
    /\ UNCHANGED not_scale

\* g191_data["FLUX"] = flux * scale_factor[i]
Rescale(a, factor) == [k \in 1..Len(a) |-> FracMul(Frac(a[k], 1), factor)]

\* for i, filename in enumerate(files): ... g191_hdul.writeto(
\*     f"{stis_scaled_data_dir}/{filename}", overwrite=True)
ScaleRescale ==
    /\ At("scale_rescale")
    /\ scaled' = [i \in 1..3 |-> Rescale(flux[i], scale_factor[i])]
    /\ Goto("end")
    /\ UNCHANGED <<out, log, err, flux, med_spec, scale_factor>>
    /\ UNCHANGED not_scale

ScaleNext ==
    \/ ScaleMedians
    \/ ScaleFactors
    \/ ScaleRescale

SpecScale == ScaleInit /\ [][ScaleNext]_vars

NonZeroMedians ==
    \A i \in 1..3 : IsFinite(med_spec[i]) /\ med_spec[i].n # 0

PositiveMedians ==
    \A i \in 1..3 : IsFinite(med_spec[i]) /\ med_spec[i].n > 0

\* C7: for any three input spectra the normalizing median is the largest of
\* the three medians, so every scale factor is >= 1 (checked here on spectra
\* whose medians are all positive).
C7_NormalizedToBrightest ==
    (scale_factor # <<>> /\ PositiveMedians) =>
        /\ \A i \in 1..3 : FracLeq(med_spec[i], med_spec[1])
        /\ \A i \in 1..3 : FracLeq(One, scale_factor[i])

(***************************************************************************)
(* Synthetic-photometry notebooks: download, extraction, PYSYN_CDBS, import *)
(*                                                                         *)
(* Paths are sequences of components below the root.                       *)
(***************************************************************************)
MaxMembers == 2

SynNotebooks == {"filter_transformations", "synphot_examples"}
WorkDirs == {<<"home", "user">>, <<"data">>}

\* extract_to = 'hlsp_reference-atlases_hst_multi_everything_multi_v11_sed'
ExtractTo == "hlsp_sed"

\* Names a member of the archive can have: below the archive root, leaving
\* it with '..', and leaving it for a sibling whose name starts with the
\* name of the extraction directory
MemberNames ==
    {<<"grp", "redcat", "trds">>, <<"..", "evil">>, <<"..", "hlsp_sed_evil">>}

\* os.path.normpath on components: '..' drops the component before it
RECURSIVE NormFrom(_, _)
NormFrom(done, rest) ==
    IF rest = <<>> THEN done
    ELSE IF Head(rest) = ".."
    THEN NormFrom(IF done = <<>> THEN <<>> ELSE SubSeq(done, 1, Len(done) - 1),
                  Tail(rest))
    ELSE NormFrom(Append(done, Head(rest)), Tail(rest))

\* os.path.abspath(p) for a relative path p
AbsPath(dir, p) == NormFrom(<<>>, dir \o p)

\* str.startswith on single components that occur in the model
NameStartsWith(a, b) == a = b \/ (a = "hlsp_sed_evil" /\ b = "hlsp_sed")

\* member_path.startswith(abs_extract_to): a prefix test on the path strings,
\* so the last component of the prefix need only start the component it meets
PathStartsWith(path, prefix) ==
    /\ Len(path) >= Len(prefix)
    /\ \A k \in 1..(Len(prefix) - 1) : path[k] = prefix[k]
    /\ Len(prefix) > 0 => NameStartsWith(path[Len(prefix)], prefix[Len(prefix)])

CdbsPath_Relative(abs_extract_to) == <<ExtractTo, "grp", "redcat", "trds">>

\* os.path.join(abs_extract_to, 'grp/redcat/trds/')
CdbsPath(abs_extract_to) == abs_extract_to \o <<"grp", "redcat", "trds">>

\* State when the notebook is opened: the archive may be in the working
\* directory from an earlier run, and the shell may have set PYSYN_CDBS
SynInit ==
    /\ pc = "syn_imports" /\ status = "running" /\ out = <<>> /\ log = <<>>
    /\ err = NoErr
    /\ syn_nb \in SynNotebooks
    /\ cwd \in WorkDirs
    /\ tar_state \in {"absent", "ok"}
    /\ tar_members \in SeqsUpTo(MemberNames, MaxMembers)
    /\ extracted = {}
    /\ pysyn_cdbs \in {UnsetPath, <<"old", "cdbs">>}
    /\ stsyn_env = NotImported
    /\ AcsIdle /\ SkyIdle /\ FluxIdle /\ ScaleIdle /\ ColIdle /\ WfcIdle
    /\ fits_ops = {}

\* import os, tarfile, numpy, ...; vegaspec = syn.SourceSpectrum.from_vega()
SynImports ==
    /\ At("syn_imports")
    /\ Goto("syn_curl")
    /\ UNCHANGED <<out, log, err, syn_vars>>
    /\ UNCHANGED not_syn

\* !curl -O https://archive.stsci.edu/.../..._v11_sed.tar
\* (a shell escape: a failed or interrupted download does not raise)
SynCurl ==
    /\ At("syn_curl")
    /\ log' = Append(log, "curl")
    /\ \E result \in {"ok", "partial", "failed"} :
          tar_state' = IF result = "failed" THEN tar_state ELSE result
    /\ Goto("syn_extract")
    /\ UNCHANGED <<out, err, syn_nb, cwd, tar_members, extracted, pysyn_cdbs,
                   stsyn_env>>
    /\ UNCHANGED not_syn

\* The members the loop extracts: those whose absolute path starts with
\* abs_extract_to
SafeMembers(abs_extract_to, members) ==
    {k \in 1..Len(members) :
        PathStartsWith(AbsPath(abs_extract_to, members[k]), abs_extract_to)}

\* cell: extract tar and set PYSYN_CDBS
SynExtract ==
    /\ At("syn_extract")
    /\ log' = Append(log, "extract")
    /\ LET abs_extract_to == AbsPath(cwd, <<ExtractTo>>)
       IN  IF tar_state # "ok"
           THEN \* tarfile.open raises FileNotFoundError or ReadError
                /\ Raise([type |-> IF tar_state = "absent"
                                   THEN "FileNotFoundError" ELSE "ReadError"])
                /\ UNCHANGED <<out, extracted, pysyn_cdbs>>
           ELSE \E nOk \in 0..Len(tar_members) :
                  LET seen == {k \in 1..Len(tar_members) : k <= nOk}
                      safe == SafeMembers(abs_extract_to, tar_members) \cap seen
                  IN  /\ extracted' = extracted \cup
                            {AbsPath(abs_extract_to, tar_members[k]) : k \in safe}
                      /\ out' = out \o [k \in 1..Cardinality(seen \ safe) |->
                                            "Skipped member due to potential security risk"]
                      /\ IF nOk < Len(tar_members)
                            /\ (nOk + 1) \in SafeMembers(abs_extract_to, tar_members)
                         THEN \* tar.extract raises on member nOk + 1
                              /\ Raise([type |-> "OSError"])
                              /\ UNCHANGED pysyn_cdbs
                         ELSE /\ nOk = Len(tar_members)
                              /\ pysyn_cdbs' = CdbsPath(abs_extract_to)
                              /\ Goto("syn_import_stsynphot")
                              /\ UNCHANGED err
    /\ UNCHANGED <<syn_nb, cwd, tar_state, tar_members, stsyn_env>>
    /\ UNCHANGED not_syn

\* import stsynphot as stsyn : the package reads PYSYN_CDBS when imported
SynImportStsynphot ==
    /\ At("syn_import_stsynphot")
    /\ log' = Append(log, "import stsynphot")
    /\ stsyn_env' = pysyn_cdbs
    /\ Goto("end")
    /\ UNCHANGED <<out, err, syn_nb, cwd, tar_state, tar_members, extracted,
                   pysyn_cdbs>>
    /\ UNCHANGED not_syn

SynNext ==
    \/ SynImports
    \/ SynCurl
    \/ SynExtract
    \/ SynImportStsynphot

SpecSynphot == SynInit /\ [][SynNext]_vars

StsynImported == \E i \in 1..Len(log) : log[i] = "import stsynphot"

\* C8: whenever `import stsynphot` is executed, PYSYN_CDBS has already been
\* set to <abs_extract_to>/grp/redcat/trds/; if the extraction cell raises,
\* the import is never reached.
C8_ImportSeesCdbsPath ==
    /\ StsynImported =>
          /\ stsyn_env = cwd \o <<ExtractTo, "grp", "redcat", "trds">>
          /\ pysyn_cdbs = stsyn_env
    /\ (status = "raised" /\ pc = "syn_extract") =>
          /\ ~StsynImported
          /\ stsyn_env = NotImported

\* C8 witness: the import ran in /data after a non-empty archive was
\* extracted there
C8_Witness_ImportAfterOldSetting ==
    /\ StsynImported
    /\ stsyn_env = <<"data", ExtractTo, "grp", "redcat", "trds">>
    /\ tar_members # <<>>

\* The extraction cell raised because the tar file is missing
SynStoppedWithoutTar ==
    /\ status = "raised" /\ pc = "syn_extract"
    /\ err.type = "FileNotFoundError"

(***************************************************************************)
(* Filter-transformation notebook: the colour-term table                   *)
(*                                                                         *)
(* Magnitudes are integers in units of a third of a millimagnitude, so a   *)
(* value is never half-way between two three-decimal numbers.              *)
(***************************************************************************)
MaxPairs == 2

\* (non-HST filter, UVIS filter) tuples a user can put into filter_pairs
PairSet ==
    {<<"johnson, v", "f555w">>, <<"cousins, i", "f814w">>,
     <<"johnson, v", "f814w">>}

MagNames == <<"ABMAG", "STMAG", "VEGAMAG">>
MagUnits == <<"ABmag", "STmag", "VEGAMAG">>

\* The throughput tables stsynphot may have loaded (the latest available)
Throughputs == {1, 2}

BandNo(obsmode) ==
    CASE obsmode = "johnson, v" -> 1
      [] obsmode = "cousins, i" -> 2
      [] obsmode = "wfc3, UVIS1, f555w" -> 3
      [] obsmode = "wfc3, UVIS2, f555w" -> 4
      [] obsmode = "wfc3, UVIS1, f814w" -> 5
      [] obsmode = "wfc3, UVIS2, f814w" -> 6

UnitNo(unit) ==
    CASE unit = "ABmag" -> 1 [] unit = "STmag" -> 2 [] unit = "VEGAMAG" -> 3

\* Magnitude of the source spectrum in each band before the unit- and
\* table-dependent part is added (third-millimagnitudes)
BandMag == <<60000, 57000, 60040, 59975, 56999, 56923>>

\* Observation(source_spectrum, stsyn.band(obsmode)).effstim(flux_unit=unit):
\* the magnitude of the source spectrum in the band, a value of the
\* external library that depends on band, unit and throughput tables
Effstim(tables, obsmode, unit) ==
    LET b == BandNo(obsmode)
        u == UnitNo(unit)
    IN  BandMag[b] + ((u * u * (b + tables) * 17) % 101)

\* f'{value:.3f}' : sign and thousandths of the value rounded to three decimals
Fmt3(v) ==
    LET a == IF v < 0 THEN -v ELSE v
    IN  [neg |-> v < 0, milli |-> (a \div 3) + (IF a % 3 = 2 THEN 1 ELSE 0)]

ColourTerm_Swapped(comparison_countrate, uvis_countrate) ==
    uvis_countrate - comparison_countrate

\* color = comparison_countrate - uvis_countrate
ColourTerm(comparison_countrate, uvis_countrate) ==
    comparison_countrate - uvis_countrate

Skipped_Never(toggle) == FALSE

\* if not toggle: continue
Skipped(toggle) == ~toggle

\* for name, unit, toggle in mags: ... row.append(f'{color.value:.3f}')
RECURSIVE MagLoop(_, _, _, _, _)
MagLoop(row, ms, tables, comparison_obsmode, uvis_obsmode) ==
    IF ms = <<>> THEN row
    ELSE LET m == Head(ms)
         IN  IF Skipped(m.toggle)
             THEN MagLoop(row, Tail(ms), tables, comparison_obsmode, uvis_obsmode)
             ELSE LET comparison_countrate ==
                          Effstim(tables, comparison_obsmode, m.unit)
                      uvis_countrate == Effstim(tables, uvis_obsmode, m.unit)
                      color == ColourTerm(comparison_countrate, uvis_countrate)
                  IN  MagLoop(Append(row, Fmt3(color)), Tail(ms), tables,
                              comparison_obsmode, uvis_obsmode)

\* for i, toggle in enumerate(chips): ... rows.append(row)   (i counts from 0)
RECURSIVE ChipLoop(_, _, _, _, _)
ChipLoop(acc, pair, i, ms, tables) ==
    IF i >= Len(chips) THEN acc
    ELSE IF Skipped(chips[i + 1])
    THEN ChipLoop(acc, pair, i + 1, ms, tables)
    ELSE LET comparison_filter == pair[1]
             uvis_filter  == pair[2]
             filt_str     == comparison_filter \o " - " \o uvis_filter
             chip_str     == "UVIS" \o ToString(i + 1)
             uvis_obsmode == "wfc3, " \o chip_str \o ", " \o uvis_filter
             row == MagLoop(<<filt_str, chip_str>>, ms, tables,
                            comparison_filter, uvis_obsmode)
         IN  ChipLoop(Append(acc, row), pair, i + 1, ms, tables)

\* for pair in filter_pairs: ...
RECURSIVE PairLoop(_, _, _, _)
PairLoop(acc, pairs, ms, tables) ==
    IF pairs = <<>> THEN acc
    ELSE PairLoop(ChipLoop(acc, Head(pairs), 0, ms, tables), Tail(pairs), ms,
                  tables)

\* State after the cells that define filter_pairs, the spectrum, chips and
\* mags (the user sets the pairs and the flags)
ColInit ==
    /\ pc = "col_cols" /\ status = "running" /\ out = <<>> /\ log = <<>>
    /\ err = NoErr
    /\ filter_pairs \in SeqsUpTo(PairSet, MaxPairs)
    /\ chips \in [1..2 -> BOOLEAN]
    /\ \E toggles \in [1..3 -> BOOLEAN] :
          mags = [k \in 1..3 |-> [name |-> MagNames[k], unit |-> MagUnits[k],
                                  toggle |-> toggles[k]]]
    /\ throughput \in Throughputs
    /\ cols = <<>>
    /\ rows = <<>>
    /\ df = NoFrame
    /\ AcsIdle /\ SkyIdle /\ FluxIdle /\ ScaleIdle /\ SynIdle /\ WfcIdle
    /\ fits_ops = {}

\* cols = ['Filter Pair', 'Chip']; rows = []
ColDefineCols ==
    /\ At("col_cols")
    /\ cols' = <<"Filter Pair", "Chip">>
    /\ rows' = <<>>
    /\ Goto("col_magcols")
    /\ UNCHANGED <<out, log, err, filter_pairs, chips, mags, throughput, df>>
    /\ UNCHANGED not_col

\* for name, _, toggle in mags: if toggle: cols.append(f'{name} Color Term')
RECURSIVE MagCols(_, _)
MagCols(acc, ms) ==
    IF ms = <<>> THEN acc
    ELSE MagCols(IF Head(ms).toggle
                 THEN Append(acc, Head(ms).name \o " Color Term") ELSE acc,
                 Tail(ms))

ColAppendMagCols ==
    /\ At("col_magcols")
    /\ cols' = MagCols(cols, mags)
    /\ Goto("col_loop")
    /\ UNCHANGED <<out, log, err, filter_pairs, chips, mags, throughput, rows,
                   df>>
    /\ UNCHANGED not_col

\* cell: colour-term loop.  A call into stsynphot may raise; the rows
\* appended before it stay in the list.
ColLoop ==
    /\ At("col_loop")
    /\ log' = Append(log, "colour-term loop")
    /\ LET all == PairLoop(rows, filter_pairs, mags, throughput)
       IN  \/ /\ rows' = all
              /\ Goto("col_frame")
              /\ UNCHANGED err
           \/ \E n \in Len(rows)..(Len(all) - 1) :
                 /\ rows' = SubSeq(all, 1, n)
                 /\ Raise([type |-> "ToolError"])
    /\ UNCHANGED <<out, filter_pairs, chips, mags, throughput, cols, df>>
    /\ UNCHANGED not_col

\* df = pd.DataFrame(rows, columns=cols): pandas raises ValueError when a row
\* has more entries than there are columns or rows are shorter than cols
ColDataFrame ==
    /\ At("col_frame")
    /\ IF \E r \in 1..Len(rows) : Len(rows[r]) # Len(cols)
       THEN Raise([type |-> "ValueError"]) /\ UNCHANGED df
       ELSE /\ df' = [columns |-> cols, data |-> rows, built |-> TRUE]
            /\ Goto("end")
            /\ UNCHANGED err
    /\ UNCHANGED <<out, log, filter_pairs, chips, mags, throughput, cols, rows>>
    /\ UNCHANGED not_col

ColNext ==
    \/ ColDefineCols
    \/ ColAppendMagCols
    \/ ColLoop
    \/ ColDataFrame

SpecColour == ColInit /\ [][ColNext]_vars

\* The loop cell has run to its end
ColLoopDone == pc \in {"col_frame", "end"}

EnabledChips == {i \in 1..2 : chips[i]}
EnabledMags == {k \in 1..3 : mags[k].toggle}

\* The c-th enabled chip (1 or 2), counting enabled chips in chip order
NthEnabledChip(c) ==
    CHOOSE i \in EnabledChips : Cardinality({j \in EnabledChips : j <= i}) = c

\* Pair and chip of row r when every pair gives one row per enabled chip
PairOfRow(r) == filter_pairs[((r - 1) \div Cardinality(EnabledChips)) + 1]
ChipOfRow(r) == NthEnabledChip(((r - 1) % Cardinality(EnabledChips)) + 1)

PairLabel(pair) ==
    CASE pair = <<"johnson, v", "f555w">> -> "johnson, v - f555w"
      [] pair = <<"cousins, i", "f814w">> -> "cousins, i - f814w"
      [] pair = <<"johnson, v", "f814w">> -> "johnson, v - f814w"

ChipLabel(i) == IF i = 1 THEN "UVIS1" ELSE "UVIS2"

\* C9: the loop appends exactly one row per (filter pair, enabled chip), in
\* filter-pair order then chip order, and every row has exactly len(cols)
\* entries, 2 + the number of enabled magnitude systems, so the DataFrame is
\* built without a shape error.
C9_OneRowPerPairAndChip ==
    /\ ColLoopDone =>
          /\ Len(rows) = Len(filter_pairs) * Cardinality(EnabledChips)
          /\ Len(cols) = 2 + Cardinality(EnabledMags)
          /\ \A r \in 1..Len(rows) :
                /\ Len(rows[r]) = Len(cols)
                /\ rows[r][1] = PairLabel(PairOfRow(r))
                /\ rows[r][2] = ChipLabel(ChipOfRow(r))
    /\ err.type # "ValueError"
    /\ df.built => (df.columns = cols /\ df.data = rows)

\* C9 witness: two pairs, both chips, two of the three magnitude systems:
\* four rows of four entries are in the DataFrame
C9_Witness_FourRows ==
    /\ df.built
    /\ Len(filter_pairs) = 2 /\ filter_pairs[1] # filter_pairs[2]
    /\ Cardinality(EnabledChips) = 2 /\ Cardinality(EnabledMags) = 2
    /\ Len(df.data) = 4 /\ Len(df.columns) = 4

\* The obsmode of a UVIS filter on a chip
UvisBand(uvis_filter, chip) ==
    CASE uvis_filter = "f555w" /\ chip = 1 -> "wfc3, UVIS1, f555w"
      [] uvis_filter = "f555w" /\ chip = 2 -> "wfc3, UVIS2, f555w"
      [] uvis_filter = "f814w" /\ chip = 1 -> "wfc3, UVIS1, f814w"
      [] uvis_filter = "f814w" /\ chip = 2 -> "wfc3, UVIS2, f814w"

\* The column of cols headed by the magnitude system k
ColumnOf(k) ==
    CHOOSE c \in 1..Len(cols) :
        cols[c] = (CASE k = 1 -> "ABMAG Color Term"
                     [] k = 2 -> "STMAG Color Term"
                     [] k = 3 -> "VEGAMAG Color Term")

\* The thousandths of a formatted term, with its sign
Signed(t) == IF t.neg THEN -t.milli ELSE t.milli

\* C10: for every filter pair, enabled chip and enabled magnitude system the
\* reported term is magnitude(non-HST filter) minus magnitude(UVIS filter on
\* that chip) in that system, written with three decimals, and it stands in
\* the column of that system in the row labelled '<non-HST> - <UVIS>' of that
\* chip.
C10_TermIsNonHstMinusUvis ==
    ColLoopDone =>
        \A r \in 1..Len(rows) : \A k \in EnabledMags :
            LET pair == PairOfRow(r)
                chip == ChipOfRow(r)
                diff == Effstim(throughput, pair[1], MagUnits[k])
                          - Effstim(throughput, UvisBand(pair[2], chip), MagUnits[k])
                term == rows[r][ColumnOf(k)]
            IN  /\ rows[r][1] = PairLabel(pair)
                /\ rows[r][2] = ChipLabel(chip)
                /\ term.neg = (diff < 0)
                /\ 3 * term.milli - 1 <= (IF diff < 0 THEN -diff ELSE diff)
                /\ (IF diff < 0 THEN -diff ELSE diff) <= 3 * term.milli + 1

\* C10 witness: the table holds the STMAG term of 'cousins, i - f814w' on
\* UVIS2 next to an ABMAG term of another value
C10_Witness_TwoSystems ==
    /\ ColLoopDone
    /\ EnabledMags = {1, 2} /\ EnabledChips = {1, 2}
    /\ \E r \in 1..Len(rows) :
          /\ rows[r][1] = "cousins, i - f814w" /\ rows[r][2] = "UVIS2"
          /\ rows[r][3] # rows[r][4]

(***************************************************************************)
(* WFC3 exception-report notebook: download cell and header cells          *)
(***************************************************************************)
MaxDl == 2

\* exp_ids[0].lower()
WfcObsId == "iepp01010"

\* The first nine characters of the names of the files the archive delivers:
\* the association and one of its exposures
WfcRoots == {"iepp01010", "iepp01uvq"}

\* Sub-directories of mastDownload/HST the archive client downloads into
WfcDirs == {"iepp01010", "iepp01uvq"}

\* file_types
FileTypes == <<"FLT", "JIF", "JIT">>

\* <root>_<type>.fits ; filename[:9] is root
WfcFile(root, type) == [root |-> root, type |-> type]

\* A file left in a download sub-directory by an earlier run
StaleFile(dir) == WfcFile(dir, "OLD")

\* download_table['Local Path'] for one file type: mastDownload/HST/<dir>/<file>
DownloadTables(type) ==
    {t \in SeqsUpTo({[file |-> WfcFile(r, type), dir |-> d] :
                        r \in WfcRoots, d \in WfcDirs}, MaxDl) :
        \A i, j \in 1..Len(t) : t[i].file = t[j].file => i = j}

\* State after the import cell
WfcInit ==
    /\ pc = "wfc_download" /\ status = "running" /\ out = <<>> /\ log = <<>>
    /\ err = NoErr
    /\ wfc_newdir \in [exists : BOOLEAN, files : {{}}]
    /\ \E stale \in SUBSET WfcDirs, top \in BOOLEAN :
          /\ stale # {} => top
          /\ wfc_mast = [top |-> top, dirs |-> stale,
                         files |-> [d \in WfcDirs |->
                                       IF d \in stale THEN {StaleFile(d)} ELSE {}]]
    /\ wfc_dl = <<>>
    /\ wfc_fail = 0
    /\ wfc_rmdir = [calls |-> 0, fails |-> 0]
    /\ fits_ops = {}
    /\ AcsIdle /\ SkyIdle /\ FluxIdle /\ ScaleIdle /\ SynIdle /\ ColIdle

\* try: os.mkdir(newdir) ... except FileExistsError: ...
Mkdir(c) ==
    IF c.newdir_exists
    THEN [c EXCEPT !.out = Append(@, <<"Directory already exists", WfcObsId>>)]
    ELSE [c EXCEPT !.newdir_exists = TRUE,
                   !.out = Append(@, <<"Making new directory", WfcObsId>>)]

\* Observations.download_products(filtered_products, mrp_only=False)
Download(c, tbl) ==
    [c EXCEPT !.top = @ \/ tbl # <<>>,
              !.dirs = @ \cup {tbl[i].dir : i \in 1..Len(tbl)},
              !.files = [d \in WfcDirs |->
                            @[d] \cup {tbl[i].file :
                                          i \in {j \in 1..Len(tbl) : tbl[j].dir = d}}]]

ExceptOSError_Uncaught(c, remove_dir) == [c EXCEPT !.raised = TRUE]

\* except (OSError, FileNotFoundError): print(f'Error removing directory ...')
ExceptOSError(c, remove_dir) ==
    [c EXCEPT !.out = Append(@, <<"Error removing directory", remove_dir>>)]

\* try: os.rmdir(remove_dir); print(f'Removing {remove_dir}')
\* os.rmdir fails on a directory that does not exist or is not empty
Rmdir(c, remove_dir) ==
    LET c1 == [c EXCEPT !.calls = @ + 1]
    IN  IF remove_dir \in c.dirs /\ c.files[remove_dir] = {}
        THEN [c1 EXCEPT !.dirs = @ \ {remove_dir},
                        !.out = Append(@, <<"Removing", remove_dir>>)]
        ELSE ExceptOSError([c1 EXCEPT !.fails = @ + 1], remove_dir)

\* The body of `for file in download_table['Local Path']`; the rename call
\* number failAt raises OSError, which nothing catches
MoveOne(c, e, failAt) ==
    LET c1 == [c EXCEPT !.out = Append(@, <<"Moving", e.file>>),
                        !.renames = @ + 1]
    IN  IF c1.renames = failAt
        THEN [c1 EXCEPT !.raised = TRUE]
        ELSE Rmdir([c1 EXCEPT !.files[e.dir] = @ \ {e.file},
                              !.newdir = @ \cup {e.file}],
                   e.file.root)

\* for file in download_table['Local Path']: ...
RECURSIVE MoveAll(_, _, _)
MoveAll(c, tbl, failAt) ==
    IF c.raised \/ tbl = <<>> THEN c
    ELSE MoveAll(MoveOne(c, Head(tbl), failAt), Tail(tbl), failAt)

\* for file_type in file_types: ...
RECURSIVE TypeLoop(_, _, _, _)
TypeLoop(c, tables, k, failAt) ==
    IF c.raised \/ k > Len(FileTypes) THEN c
    ELSE LET c1 == [c EXCEPT !.out = Append(@, <<"Working on getting", FileTypes[k]>>)]
         IN  TypeLoop(MoveAll(Download(c1, tables[k]), tables[k], failAt),
                      tables, k + 1, failAt)

\* if os.path.exists(mast_dir): shutil.rmtree(mast_dir) else: print(...)
RemoveMastDir(c) ==
    IF c.raised THEN c
    ELSE IF c.top
    THEN [c EXCEPT !.top = FALSE, !.dirs = {},
                   !.files = [d \in WfcDirs |-> {}],
                   !.out = Append(@, <<"Removing directory", "mastDownload">>)]
    ELSE [c EXCEPT !.out = Append(@, <<"does not exist", "mastDownload">>)]

\* Number of files in the download tables
RECURSIVE TotalFiles(_)
TotalFiles(tables) ==
    IF tables = <<>> THEN 0 ELSE Len(Head(tables)) + TotalFiles(Tail(tables))

\* The download cell: for obsid in exp_ids: mkdir, the loop over the file
\* types, removal of mastDownload
WfcDownload ==
    /\ At("wfc_download")
    /\ \E tables \in DownloadTables("FLT") \X DownloadTables("JIF")
                         \X DownloadTables("JIT") :
       \E failAt \in 0..TotalFiles(tables) :
          LET c0 == [newdir_exists |-> wfc_newdir.exists,
                     newdir |-> wfc_newdir.files,
                     top |-> wfc_mast.top, dirs |-> wfc_mast.dirs,
                     files |-> wfc_mast.files,
                     out |-> out, calls |-> 0, fails |-> 0, renames |-> 0,
                     raised |-> FALSE]
              c  == RemoveMastDir(TypeLoop(Mkdir(c0), tables, 1, failAt))
          IN  /\ wfc_dl' = tables
              /\ wfc_fail' = failAt
              /\ wfc_newdir' = [exists |-> c.newdir_exists, files |-> c.newdir]
              /\ wfc_mast' = [top |-> c.top, dirs |-> c.dirs, files |-> c.files]
              /\ wfc_rmdir' = [calls |-> c.calls, fails |-> c.fails]
              /\ out' = c.out
              /\ IF c.raised
                 THEN Raise([type |-> "OSError"])
                 ELSE Goto("wfc_display") /\ UNCHANGED err
    /\ log' = Append(log, "download cell")
    /\ UNCHANGED fits_ops
    /\ UNCHANGED not_wfc

\* fltfiles = sorted(glob.glob('iepp01010/*flt.fits')); display_image(f, ...)
WfcDisplay ==
    /\ At("wfc_display")
    /\ fits_ops' = fits_ops \cup
                      {HeaderGet("metadata", "flt") :
                          f \in {g \in wfc_newdir.files : g.type = "FLT"}}
    /\ Goto("wfc_jif")
    /\ UNCHANGED <<out, log, err, wfc_vars>>
    /\ UNCHANGED not_wfc

\* Keywords the notebook looks up in the headers of the jif file
JifKeywords ==
    {"T_GSFAIL", "NEXTEND", "EXPNAME", "GUIDEACT", "GSACQ", "ACTGSSEP",
     "GSSEPRMS", "NLOSSES", "CRVAL1", "CRVAL2", "V2_RMS", "V3_RMS", "GSFAIL"}

\* jif_file = 'iepp01010/iepp01010_jif.fits'; fits.getheader(jif_file, ext)[...]
\* getheader raises FileNotFoundError when the file is not there
WfcJifHeaders ==
    /\ At("wfc_jif")
    /\ IF WfcFile(WfcObsId, "JIF") \in wfc_newdir.files
       THEN /\ fits_ops' = fits_ops \cup {HeaderGet(kw, "jif") : kw \in JifKeywords}
            /\ Goto("wfc_jit")
            /\ UNCHANGED err
       ELSE /\ Raise([type |-> "FileNotFoundError"])
            /\ UNCHANGED fits_ops
    /\ UNCHANGED <<out, log, wfc_vars>>
    /\ UNCHANGED not_wfc

\* jit_file = 'iepp01010/iepp01010_jit.fits';
\* numexts = fits.getheader(jit_file, 0)['NEXTEND'];
\* expname = fits.getheader(jit_file, ext)['EXPNAME']
WfcJitPlots ==
    /\ At("wfc_jit")
    /\ IF WfcFile(WfcObsId, "JIT") \in wfc_newdir.files
       THEN /\ fits_ops' = fits_ops \cup
                              {HeaderGet(kw, "jit") : kw \in {"NEXTEND", "EXPNAME"}}
            /\ Goto("end")
            /\ UNCHANGED err
       ELSE /\ Raise([type |-> "FileNotFoundError"])
            /\ UNCHANGED fits_ops
    /\ UNCHANGED <<out, log, wfc_vars>>
    /\ UNCHANGED not_wfc

WfcNext ==
    \/ WfcDownload
    \/ WfcDisplay
    \/ WfcJifHeaders
    \/ WfcJitPlots

SpecWfc == WfcInit /\ [][WfcNext]_vars

\* The download cell has been executed
WfcDownloadRan == Ran("download cell")

\* Number of messages of one kind among the printed messages
RECURSIVE CountMsg(_, _)
CountMsg(msgs, kind) ==
    IF msgs = <<>> THEN 0
    ELSE (IF Head(msgs)[1] = kind THEN 1 ELSE 0) + CountMsg(Tail(msgs), kind)

\* The files of all download tables
WfcDownloadedFiles ==
    UNION {{wfc_dl[k][i].file : i \in 1..Len(wfc_dl[k])} : k \in 1..Len(wfc_dl)}

\* C16: in the download cell every failing os.rmdir is reported by exactly
\* one 'Error removing directory' message and os.rmdir is called once per
\* moved file (no retry); when no os.rename fails, the cell does not raise,
\* every downloaded file of every type is in the new directory and
\* mastDownload is gone, however many os.rmdir calls failed; when an
\* os.rename fails, the cell stops there with an uncaught OSError, no later
\* file is moved and mastDownload is still there.
C16_RmdirFailureReportedRenameFailureStops ==
    WfcDownloadRan =>
        /\ CountMsg(out, "Error removing directory") = wfc_rmdir.fails
        /\ CountMsg(out, "Error removing directory")
              + CountMsg(out, "Removing") = wfc_rmdir.calls
        /\ wfc_rmdir.calls =
              IF wfc_fail = 0 THEN TotalFiles(wfc_dl) ELSE wfc_fail - 1
        /\ wfc_fail = 0 =>
              /\ err.type # "OSError"
              /\ pc # "wfc_download"
              /\ WfcDownloadedFiles \subseteq wfc_newdir.files
              /\ ~wfc_mast.top
              /\ CountMsg(out, "Working on getting") = 3
        /\ wfc_fail > 0 =>
              /\ status = "raised" /\ err.type = "OSError"
              /\ pc = "wfc_download"
              /\ wfc_mast.top
              /\ CountMsg(out, "Moving") = wfc_fail
              /\ Cardinality(wfc_newdir.files) = wfc_fail - 1
              /\ CountMsg(out, "Removing directory") = 0

\* C16 witness: an os.rmdir failed while the FLT files were moved, the JIF
\* and JIT files were moved after it and mastDownload was removed
C16_Witness_RmdirFailedCellCompleted ==
    /\ WfcDownloadRan
    /\ wfc_fail = 0
    /\ wfc_rmdir.fails >= 1
    /\ out[3][1] = "Moving" /\ out[4][1] = "Error removing directory"
    /\ WfcFile(WfcObsId, "JIF") \in wfc_newdir.files
    /\ WfcFile(WfcObsId, "JIT") \in wfc_newdir.files
    /\ CountMsg(out, "Removing directory") = 1
    /\ ~wfc_mast.top

(***************************************************************************)
(* Header keywords across the notebooks                                    *)
(*                                                                         *)
(* The notebooks that access header keywords are the ACS reduction, the    *)
(* sky-matching and the WFC3 exception-report notebook; one of them is run. *)
(***************************************************************************)
HeaderInit == AcsInit \/ SkyInit \/ WfcInit

HeaderNext == AcsNext \/ SkyNext \/ WfcNext

SpecHeaders == HeaderInit /\ [][HeaderNext]_vars

\* Keywords whose meaning belongs to the instrument pipelines
PipelineKeywords ==
    {"MDRIZSKY", "WCSNAME", "GSFAIL", "T_GSFAIL", "NMATCHES", "RMS_RA",
     "RMS_DEC", "DETECTOR", "NEXTEND", "EXPNAME", "GUIDEACT", "GSACQ",
     "ACTGSSEP", "GSSEPRMS", "NLOSSES", "CRVAL1", "CRVAL2", "V2_RMS", "V3_RMS"}

\* C15: the notebooks' own code only reads MDRIZSKY, WCSNAME, GSFAIL and the
\* other pipeline keywords it looks at; the only keyword it writes is
\* PCTECORR, on raw files; every other header write is made by an external
\* tool.
C15_OnlyPctecorrWrittenByNotebook ==
    \A o \in fits_ops :
        /\ (o.by = "notebook" /\ o.op = "write") =>
              o.kw = "PCTECORR" /\ o.file = "raw"
        /\ (o.by = "notebook" /\ o.kw \in PipelineKeywords) => o.op = "read"
        /\ (o.op = "write" /\ o.kw # "PCTECORR") =>
              o.by \in {"crds", "calacs", "updatewcs", "tweakreg", "tweakback",
                        "astrodrizzle"}

\* C15 witness: a sky-matching run in which the notebook has read WCSNAME
\* and MDRIZSKY while TweakReg, tweakback and AstroDrizzle have written them
C15_Witness_ReadByNotebookWrittenByTools ==
    /\ HeaderGet("WCSNAME", "drz") \in fits_ops
    /\ HeaderGet("MDRIZSKY", "drz_sci") \in fits_ops
    /\ ToolWrite("WCSNAME", "drz", "tweakreg") \in fits_ops
    /\ ToolWrite("WCSNAME", "flt", "tweakback") \in fits_ops
    /\ ToolWrite("MDRIZSKY", "flt", "astrodrizzle") \in fits_ops

\* The ACS run in which the notebook has written PCTECORR and the tools the rest
AcsHeaderWrites ==
    /\ SetvalOp("PCTECORR") \in fits_ops
    /\ ToolWrite("WCS", "flt", "updatewcs") \in fits_ops

====
